---- MODULE Spec2Model ----
(***************************************************************************)
(* pip-safe: per-package virtualenvs and the symlinks published for them.  *)
(* The model follows src/src/pip_safe/main.py and src/src/pip_safe/utils.py*)
(* Strings are sequences of one-character strings; the file system is the  *)
(* set of virtualenv directories per scope plus the public bin directory   *)
(* per scope.  pip, virtualenv and the user at the prompt are oracles      *)
(* whose answers are inputs of the actions.                                *)
(***************************************************************************)
EXTENDS Integers, Sequences, FiniteSets, TLC

\* ------------------------------------------------------------------ bounds
\* Number of publish() calls in one behaviour of SpecPublish.
MaxPublish == 2
\* Number of lines "pip show" prints in SpecVersion.
MaxShowLines == 3
\* Number of pieces a reference is put together from in SpecSanitize.
MaxPieces == 4

\* ------------------------------------------------------------- str helpers
\* s[i..] (1-based), the empty string when i is past the end.
Drop(s, i) == IF i > Len(s) THEN <<>> ELSE SubSeq(s, i, Len(s))

\* str.startswith
StartsWith(s, p) == Len(s) >= Len(p) /\ SubSeq(s, 1, Len(p)) = p

\* str.replace(old, new): every non-overlapping occurrence, left to right.
RECURSIVE Replace(_, _, _)
Replace(s, old, new) ==
    IF s = <<>> THEN <<>>
    ELSE IF StartsWith(s, old) THEN new \o Replace(Drop(s, Len(old) + 1), old, new)
    ELSE <<Head(s)>> \o Replace(Tail(s), old, new)

\* str.split(sep)[0]: the text before the first occurrence of sep.
RECURSIVE SplitFirst(_, _)
SplitFirst(s, sep) ==
    IF s = <<>> \/ StartsWith(s, sep) THEN <<>>
    ELSE <<Head(s)>> \o SplitFirst(Tail(s), sep)

\* str.rsplit(sep, 1)[-1], str.split(sep)[-1] and os.path.basename for a
\* one-character sep: the text after the last occurrence of sep.
RECURSIVE SplitLast(_, _)
SplitLast(s, sep) ==
    IF s = <<>> THEN <<>>
    ELSE IF \E i \in 1..Len(s) : s[i] = sep
         THEN SplitLast(Tail(s), sep)
         ELSE s

\* "pat in s"
RECURSIVE Contains(_, _)
Contains(s, pat) ==
    IF StartsWith(s, pat) THEN TRUE
    ELSE IF s = <<>> THEN FALSE
    ELSE Contains(Tail(s), pat)

\* str.strip() for the blank character
RECURSIVE Strip(_)
Strip(s) ==
    IF s = <<>> THEN s
    ELSE IF Head(s) = " " THEN Strip(Tail(s))
    ELSE IF s[Len(s)] = " " THEN Strip(SubSeq(s, 1, Len(s) - 1))
    ELSE s

\* ------------------------------------------------------------ string data
HttpsScheme == <<"h","t","t","p","s",":","/","/">>
EqEq == <<"=","=">>
GitPlus == <<"g","i","t","+">>
Dot == <<".">>
\* "../../../bin/": the manifest prefix of a file in the environment's bin
BinPrefix == <<".",".","/",".",".","/",".",".","/","b","i","n","/">>
\* pip's own bootstrap packages
Bootstrap == { <<"p","i","p">>, <<"s","e","t","u","p","t","o","o","l","s">>,
               <<"w","h","e","e","l">> }

\* The package references the user passes on the command line.
RefA == <<"a">>
RefAPin == <<"a","=","=","1">>
RefGit == <<"g","i","t","+","h","t","t","p","s",":","/","/","h","/","b">>
RefDot == Dot
\* Every reference of the model, and the ones the commands of Spec use.
AllRefs == { RefA, RefAPin, RefGit, RefDot }
\* References whose directory name is empty or "..".
OddRefs == { <<"=","=","1">>, HttpsScheme, <<".",".">> }
Refs == { RefA, RefAPin, RefGit }
\* os.getcwd() of the invocation
Cwd == <<"/","w","/","c">>

\* ------------------------------------------------------------------ paths
Scopes == { "user", "system" }
ScopeOf(system_wide) == IF system_wide THEN "system" ELSE "user"

\* A variant that leaves "https://" in the name.
VenvKey_keeping_scheme(name) ==
    LET n2 == Replace(name, <<"/">>, <<"_">>)
        n3 == SplitFirst(n2, EqEq)
    IN  IF n3 = Dot THEN SplitLast(Cwd, "/") ELSE n3

\* A variant that does not cut the name at "==".
VenvKey_keeping_version(name) ==
    LET n1 == Replace(name, HttpsScheme, <<>>)
        n2 == Replace(n1, <<"/">>, <<"_">>)
    IN  IF n2 = Dot THEN SplitLast(Cwd, "/") ELSE n2

\* get_venv_dir: the directory name under get_venvs_dir(system_wide).
VenvKey(name) ==
    LET n1 == Replace(name, HttpsScheme, <<>>)
        n2 == Replace(n1, <<"/">>, <<"_">>)
        n3 == SplitFirst(n2, EqEq)
    IN  IF n3 = Dot THEN SplitLast(Cwd, "/") ELSE n3

\* Every name get_venv_dir is called with: the references, the directory
\* names list_packages reads back, and the current directory's name.
Names == AllRefs \cup OddRefs \cup { VenvKey(r) : r \in AllRefs } \cup { SplitLast(Cwd, "/") }
KeyOf == [ n \in Names |-> VenvKey(n) ]

get_venv_dir(name, system_wide) ==
    [scope |-> ScopeOf(system_wide), key |-> KeyOf[name]]

\* get_venvs_dir / get_bin_dir are the two roots of a scope; a path below
\* them is named by the scope and the entry's name.

\* ------------------------------------------------------------ file system
\* Executables a package may ship, and the names tempfile.mktemp may return.
ExeX == <<"x">>
ExeY == <<"y">>
ExeNames == { ExeX, ExeY }
Tmp1 == <<"t","m","p","1">>
Tmp2 == <<"t","m","p","2">>
TmpNames == { Tmp1, Tmp2 }
BinNames == ExeNames \cup TmpNames

\* What a symlink points to: a file in an environment's bin directory, or
\* (for links this program did not make) some other file or directory.
NoTarget == [scope |-> "none", key |-> <<>>, name |-> <<>>]
DirTarget == [scope |-> "elsewhere", key |-> <<>>, name |-> <<"d","i","r">>]
FileTarget == [scope |-> "elsewhere", key |-> <<>>, name |-> <<"f">>]
EnvTarget(vd, bin_name) == [scope |-> vd.scope, key |-> vd.key, name |-> bin_name]

\* A directory entry of a public bin directory.
Absent == [kind |-> "absent", to |-> NoTarget]
PlainFile == [kind |-> "file", to |-> NoTarget]
PlainDir == [kind |-> "dir", to |-> NoTarget]
Link(target) == [kind |-> "link", to |-> target]

\* os.path.isdir follows symbolic links; os.path.islink does not.
isdir(e) == e.kind = "dir" \/ (e.kind = "link" /\ e.to = DirTarget)
islink(e) == e.kind = "link"

EmptyDir == [n \in BinNames |-> Absent]

\* One virtualenv directory: whether it exists, whether bin/pip is in it,
\* whether its interpreter still runs, the distribution pip has installed
\* in it (<<>> for none) with the files of its manifest that lie in bin/,
\* and what "pip list" prints first on its merged stdout/stderr.
ListOuts == { "json", "empty", "garbage" }
NoEnv == [exists |-> FALSE, pip |-> FALSE, python |-> FALSE,
          dist |-> <<>>, bins |-> <<>>, listOut |-> "json"]

Keys == { VenvKey(r) : r \in AllRefs }

\* The world an invocation runs in.
World(e, b, bd) == [envs |-> e, bin |-> b, binDir |-> bd]
\* os.path.join(venvs_dir, name): the directory of that name below the
\* scope's root; the root itself for the empty name; the root's parent
\* (the home directory, or /opt) for "..".  Neither the root nor its
\* parent has a bin/pip.
PathKind(vd) ==
    IF vd.key \in Keys THEN "child" ELSE IF vd.key = <<>> THEN "root" ELSE "parent"
EnvAt(W, vd) ==
    CASE PathKind(vd) = "child" -> W.envs[vd.scope][vd.key]
      [] PathKind(vd) = "root" ->
            [NoEnv EXCEPT !.exists = \E k \in Keys : W.envs[vd.scope][k].exists]
      [] OTHER -> [NoEnv EXCEPT !.exists = TRUE]
\* The directory becomes env; when the root or its parent is deleted,
\* everything below it goes: every environment of the scope and, below
\* the home directory, ~/.local/bin.
SetEnv(W, vd, env) ==
    CASE PathKind(vd) = "child" -> [W EXCEPT !.envs[vd.scope][vd.key] = env]
      [] env.exists -> W
      [] PathKind(vd) = "root" -> [W EXCEPT !.envs[vd.scope] = [k \in Keys |-> NoEnv]]
      [] OTHER ->
            IF vd.scope = "user"
            THEN [W EXCEPT !.envs[vd.scope] = [k \in Keys |-> NoEnv],
                           !.bin[vd.scope] = EmptyDir, !.binDir[vd.scope] = FALSE]
            ELSE [W EXCEPT !.envs[vd.scope] = [k \in Keys |-> NoEnv]]

\* Python's None, True and False as return values.
PyNone == "None"
PyTrue == "True"
PyFalse == "False"

\* ----------------------------------------------------------------- utils
\* make_sure_path_exists(venv_dir): makedirs, EEXIST ignored; the umask is
\* set to 0 and put back in the finally clause, so it is unchanged.
make_sure_path_exists(W, vd) ==
    SetEnv(W, vd, [EnvAt(W, vd) EXCEPT !.exists = TRUE])

\* make_sure_path_exists(bin_dir)
make_sure_bin_exists(W, scope) == [W EXCEPT !.binDir[scope] = TRUE]

\* ensure_file_is_absent: os.remove unlinks a file or a symbolic link; on a
\* directory or a missing entry it raises OSError, which is swallowed.
ensure_file_is_absent(d, n) ==
    IF d[n].kind \in { "file", "link" } THEN [d EXCEPT ![n] = Absent] ELSE d

\* ------------------------------------------------------- utils.symlink
\* os.symlink(target, temp_link_name): EEXIST when the name is taken.
os_symlink(d, target, n) ==
    IF d[n] # Absent THEN [d |-> d, exc |-> "EEXIST"]
    ELSE [d |-> [d EXCEPT ![n] = Link(target)], exc |-> "none"]

\* A variant that unlinks link_name before it creates the temporary link.
create_temp_link_unlinking(d, target, link_name, temp_link_name) ==
    os_symlink(ensure_file_is_absent(d, link_name), target, temp_link_name)

\* Lines 47-59: one round of the loop that creates the temporary link.
create_temp_link(d, target, link_name, temp_link_name) ==
    os_symlink(d, target, temp_link_name)

\* A variant that leaves the source name in place.
os_replace_copying(d, src, dst) ==
    IF d[dst].kind = "dir" THEN [d |-> d, exc |-> "IsADirectoryError"]
    ELSE [d |-> [d EXCEPT ![dst] = d[src]], exc |-> "none"]

\* os.replace / os.rename(src, dst): one atomic step of the file system;
\* a non-directory cannot be renamed over a directory.
os_replace(d, src, dst) ==
    IF d[dst].kind = "dir" THEN [d |-> d, exc |-> "IsADirectoryError"]
    ELSE [d |-> [d EXCEPT ![dst] = d[src], ![src] = Absent], exc |-> "none"]

\* Lines 64-67: the test that pre-empts os.replace on a directory.
is_dir_conflict(d, link_name) == isdir(d[link_name])

\* A variant of the clean-up that leaves the temporary link behind.
remove_temp_link_never(d, temp_link_name) == d

\* Lines 74-76: the clean-up of the except clause.
remove_temp_link(d, temp_link_name) ==
    IF islink(d[temp_link_name]) THEN [d EXCEPT ![temp_link_name] = Absent] ELSE d

\* tempfile.mktemp(dir=link_dir): a name that does not exist when asked.
FreeTmpNames(d) == { t \in TmpNames : d[t] = Absent }

\* symlink(target, link_name, overwrite=True) run without interruption.
symlink(d, target, link_name) ==
    LET tmp == CHOOSE t \in FreeTmpNames(d) : TRUE
        made == create_temp_link(d, target, link_name, tmp)
        repl == IF is_dir_conflict(made.d, link_name)
                THEN [d |-> made.d, exc |-> "IsADirectoryError"]
                ELSE os_replace(made.d, tmp, link_name)
    IN  IF repl.exc = "none" THEN repl
        ELSE [d |-> remove_temp_link(repl.d, tmp), exc |-> repl.exc]

\* ------------------------------------------------------------ pip oracle
PipName == <<"p","i","p">>
WheelName == <<"w","h","e","e","l">>

\* stdout of "pip list --not-required --format json" (stderr is merged in):
\* a sequence of lines, each either a JSON array of packages or other text.
JsonLine(pkgs) == [json |-> TRUE, pkgs |-> pkgs]
TextLine == [json |-> FALSE, pkgs |-> <<>>]
pip_list(env) ==
    LET pkgs == IF env.dist = <<>> THEN <<PipName, WheelName>>
                ELSE <<PipName, env.dist, WheelName>>
    IN  CASE env.listOut = "json" -> << JsonLine(pkgs) >>
          [] env.listOut = "empty" -> << >>
          [] OTHER -> << TextLine, JsonLine(pkgs) >>

\* "pip show -f <dist>" exits non-zero unless <dist> is installed.
pip_show_ok(env, dist_name) == env.dist # <<>> /\ env.dist = dist_name

\* stdout of "pip show -f <dist>" for the installed distribution.
RECURSIVE ManifestLines(_)
ManifestLines(bins) ==
    IF bins = <<>> THEN << <<" "," ","l","i","b","/","m",".","p","y">> >>
    ELSE << <<" "," ">> \o BinPrefix \o Head(bins) >> \o ManifestLines(Tail(bins))
pip_show_files(dist, bins) ==
    << <<"N","a","m","e",":"," ">> \o dist, <<"F","i","l","e","s",":">> >>
       \o ManifestLines(bins)

\* ------------------------------------------- get_venv_executable_names
\* Lines 116-124: the base names of the manifest lines under ../../../bin/.
RECURSIVE bin_names_of(_)
bin_names_of(lines) ==
    IF lines = <<>> THEN <<>>
    ELSE LET line == Strip(Head(lines))
         IN  IF StartsWith(line, BinPrefix)
             THEN << SplitLast(line, "/") >> \o bin_names_of(Tail(lines))
             ELSE bin_names_of(Tail(lines))

\* Lines 108-111: the first listed package that is not pip's bootstrap.
RECURSIVE main_package_of(_, _)
main_package_of(packages, default) ==
    IF packages = <<>> THEN default
    ELSE IF Head(packages) \notin Bootstrap THEN Head(packages)
    ELSE main_package_of(Tail(packages), default)

\* The distributions and manifests an environment may hold, and for each
\* the names the loop of lines 116-124 collects from pip's output.
Dists == { <<"a">>, <<"b">>, <<"c">>, <<"d">> }
BinSeqs == { <<>>, <<ExeX>>, <<ExeY, ExeX>> }
CollectedNames ==
    [ d \in Dists, b \in BinSeqs |-> bin_names_of(pip_show_files(d, b)) ]

\* Lines 113-127: pip show -f inside try/except OSError (FileNotFoundError,
\* raised when the interpreter is gone, is an OSError).
show_bin_names(env, main_package_name) ==
    IF ~env.python \/ ~pip_show_ok(env, main_package_name) THEN <<>>
    ELSE CollectedNames[env.dist, env.bins]

\* Lines 99-111: pip list and json.loads(list_output[0]), outside any try.
list_main_package(env, default) ==
    LET out == pip_list(env)
    IN  IF ~env.python THEN [name |-> default, exc |-> "FileNotFoundError"]
        ELSE IF out = <<>> THEN [name |-> default, exc |-> "IndexError"]
        ELSE IF ~out[1].json THEN [name |-> default, exc |-> "JSONDecodeError"]
        ELSE [name |-> main_package_of(out[1].pkgs, default), exc |-> "none"]

\* Line 95: name.split("==")[0], for every name discovery is called with.
UnpinnedName == [ n \in Names |-> SplitFirst(n, EqEq) ]

get_venv_executable_names(W, name0, system_wide) ==
    LET name == IF name0 = Dot THEN SplitLast(Cwd, "/") ELSE name0
        env == EnvAt(W, get_venv_dir(name, system_wide))
        dflt == UnpinnedName[name]
    IN  IF ~env.pip THEN [names |-> <<>>, exc |-> "none", calls |-> <<>>]
        ELSE IF StartsWith(name, GitPlus)
        THEN LET m == list_main_package(env, dflt)
             IN  IF m.exc # "none"
                 THEN [names |-> <<>>, exc |-> m.exc, calls |-> <<"pip list">>]
                 ELSE [names |-> show_bin_names(env, m.name), exc |-> "none",
                       calls |-> <<"pip list", "pip show -f">>]
        ELSE [names |-> show_bin_names(env, dflt), exc |-> "none",
              calls |-> <<"pip show -f">>]

\* -------------------------------------------------------- remove_package
\* The outcome of a handler: the world it leaves, what it returned or the
\* exception it raised, the external calls it made in order, how often it
\* asked the user, and the last message it logged.
Outcome(w, ret, exc, calls, asked, msg) ==
    [w |-> w, ret |-> ret, exc |-> exc, calls |-> calls, asked |-> asked, msg |-> msg]

\* Lines 324-327: remove the public entry of every name discovered.
RECURSIVE retract_all(_, _)
retract_all(d, names) ==
    IF names = <<>> THEN d
    ELSE retract_all(ensure_file_is_absent(d, Head(names)), Tail(names))

\* A variant that deletes the environment and leaves the public links.
remove_links_and_tree_keeping_links(W, vd, names) == SetEnv(W, vd, NoEnv)

\* Lines 322-330: retract the links, then shutil.rmtree(venv_dir).
remove_links_and_tree(W, vd, names) ==
    SetEnv([W EXCEPT !.bin[vd.scope] = retract_all(@, names)], vd, NoEnv)

\* Lines 321-335, with what get_venv_executable_names found.  shutil.rmtree
\* of root/.. empties the parent and then raises: the path is gone.
remove_found(W, vd, confirmation_needed, silent, found) ==
    LET calls == << IF silent THEN "remove(silent)" ELSE "remove" >>
                 \o (IF confirmation_needed THEN <<"confirm">> ELSE <<>>) \o found.calls
        asked == IF confirmation_needed THEN 1 ELSE 0
    IN  IF found.exc # "none"
        THEN Outcome(W, PyNone, found.exc, calls, asked, "")
        ELSE IF PathKind(vd) = "parent"
        THEN Outcome(remove_links_and_tree(W, vd, found.names), PyNone, "OSError",
                     calls \o <<"rmtree">>, asked, "")
        ELSE Outcome(remove_links_and_tree(W, vd, found.names), PyTrue, "none",
                     calls \o <<"rmtree">>, asked,
                     IF silent THEN "cleaned up" ELSE "was removed")

\* A variant that asks for confirmation before it looks for the directory.
remove_package_asking_first(W, name, system_wide, confirmation_needed, silent, answer) ==
    LET vd == get_venv_dir(name, system_wide)
        tag == IF silent THEN "remove(silent)" ELSE "remove"
    IN  IF confirmation_needed /\ ~answer
        THEN Outcome(W, PyFalse, "none", <<tag, "confirm">>, 1, "cancelled")
        ELSE IF ~EnvAt(W, vd).exists
        THEN Outcome(W, PyFalse, "none", <<tag>>, 0, "nothing to do")
        ELSE remove_found(W, vd, confirmation_needed, silent,
                          get_venv_executable_names(W, name, system_wide))

\* answer: what confirm_smth returns if it is asked.
remove_package(W, name, system_wide, confirmation_needed, silent, answer) ==
    LET vd == get_venv_dir(name, system_wide)
        tag == IF silent THEN "remove(silent)" ELSE "remove"
    IN  IF ~EnvAt(W, vd).exists
        THEN Outcome(W, PyFalse, "none", <<tag>>, 0, "nothing to do")
        ELSE IF confirmation_needed /\ ~answer
        THEN Outcome(W, PyFalse, "none", <<tag, "confirm">>, 1, "cancelled")
        ELSE remove_found(W, vd, confirmation_needed, silent,
                          get_venv_executable_names(W, name, system_wide))

\* ------------------------------------------------------- install_package
\* os.umask(0o022) of line 195, and restore_umask = None of line 193.
RelaxedUmask == 18
NoUmask == -1
\* The umask the calling process may have (0, 0o077).
Umasks == { 0, 63 }

\* sys.platform.startswith("darwin"): ensure_certifi does nothing elsewhere.
IsDarwin == FALSE

\* The outcome of install_package: as for remove_package, with the process
\* umask at exit, the names discovered, and the names reported as installed.
InstallOutcome(w, ret, exc, calls, asked, msg, umask, found, reported) ==
    [w |-> w, ret |-> ret, exc |-> exc, calls |-> calls, asked |-> asked,
     msg |-> msg, umask |-> umask, found |-> found, reported |-> reported]

\* A variant that always provisions.
needs_create_always(env, upgrade) == TRUE

\* Lines 203-210: provision unless upgrading an environment that has bin/pip.
needs_create(env, upgrade) == ~(upgrade /\ env.pip)

\* create_virtualenv on success: bin/pip and bin/python are (re)written; what
\* the environment has installed is kept (the directory is not cleared).
provisioned(env, list_out) ==
    [env EXCEPT !.exists = TRUE, !.pip = TRUE, !.python = TRUE, !.listOut = list_out]

\* Lines 269-270: "if restore_umask: os.umask(restore_umask)".
umask_at_exit(restore_umask, current) ==
    IF restore_umask # NoUmask /\ restore_umask # 0 THEN restore_umask ELSE current

\* A variant that links every name to the first name's file.
link_source_first(vd, names, bin_name) == EnvTarget(vd, Head(names))

\* Line 247: src = os.path.join(venv_dir, "bin", bin_name).
link_source(vd, names, bin_name) == EnvTarget(vd, bin_name)

\* Lines 246-250: publish each name in turn; the first exception ends the loop.
RECURSIVE publish_from(_, _, _, _)
publish_from(d, vd, names, i) ==
    IF i > Len(names) THEN [d |-> d, exc |-> "none"]
    ELSE LET r == symlink(d, link_source(vd, names, names[i]), names[i])
         IN  IF r.exc # "none" THEN r ELSE publish_from(r.d, vd, names, i + 1)

\* is_bin_in_path: in_path is whether PATH holds the user's bin directory.
is_bin_in_path(system_wide, in_path) == system_wide \/ in_path

\* Lines 251-268: the commands the final message names: all of them in
\* "Programs installed. You can run them by typing: ...", and only
\* pkg_bin_names[0] in the warning that the bin directory is not in PATH.
reported_names(names, system_wide, in_path) ==
    IF is_bin_in_path(system_wide, in_path) THEN names ELSE << Head(names) >>

\* Lines 245-270, with the outcome p of the publishing loop.
install_published(W, vd, system_wide, restore_umask, um, calls, o, found, p) ==
    IF p.exc # "none"
    THEN InstallOutcome([W EXCEPT !.bin[vd.scope] = p.d], PyNone, p.exc, calls, 0, "",
                        um, found.names, <<>>)
    ELSE InstallOutcome([W EXCEPT !.bin[vd.scope] = p.d], PyNone, "none", calls, 0,
                        IF is_bin_in_path(system_wide, o.inPath)
                        THEN "programs installed" ELSE "not in PATH",
                        umask_at_exit(restore_umask, um), found.names,
                        reported_names(found.names, system_wide, o.inPath))

\* A variant that makes the public bin directory although nothing is published.
declined_making_bin_dir(W, vd) == make_sure_bin_exists(W, vd.scope)

\* Lines 242-243: the user keeps an environment without executables; it is
\* left as it is.
declined(W, vd) == W

\* Lines 238-270, with what get_venv_executable_names found on world W.
install_finish(W, name, system_wide, restore_umask, um, calls, o, found) ==
    LET vd == get_venv_dir(name, system_wide)
        c1 == calls \o found.calls
    IN  IF found.exc # "none"
        THEN InstallOutcome(W, PyNone, found.exc, c1, 0, "", um, <<>>, <<>>)
        ELSE IF found.names = <<>>
        THEN IF o.confirm
             THEN LET r == remove_package(W, name, system_wide, TRUE, FALSE, o.confirm2)
                  IN  IF r.exc # "none"
                      THEN InstallOutcome(r.w, PyNone, r.exc, c1 \o <<"confirm">> \o r.calls,
                                          1 + r.asked, "", um, <<>>, <<>>)
                      ELSE InstallOutcome(r.w, PyNone, "none", c1 \o <<"confirm">> \o r.calls,
                                          1 + r.asked, r.msg,
                                          umask_at_exit(restore_umask, um), <<>>, <<>>)
             ELSE InstallOutcome(declined(W, vd), PyNone, "none", c1 \o <<"confirm">>, 1,
                                 "peak around",
                                 umask_at_exit(restore_umask, um), <<>>, <<>>)
        ELSE install_published(make_sure_bin_exists(W, vd.scope), vd, system_wide,
                               restore_umask, um, c1 \o <<"symlink">>, o, found,
                               publish_from(W.bin[vd.scope], vd, found.names, 1))

\* Line 236 onwards, after pip install succeeded on world W.
install_discover(W, name, system_wide, restore_umask, um, calls, o) ==
    install_finish(W, name, system_wide, restore_umask, um, calls, o,
                   get_venv_executable_names(W, name, system_wide))

\* Line 234: clean up the virtualenv on a pip error.
rollback(W, name, system_wide, answer) ==
    remove_package(W, name, system_wide, FALSE, TRUE, answer)

\* A variant in which a failed provisioning removes the directory it made.
provision_failed_cleaning(W, vd) == SetEnv(W, vd, NoEnv)

\* Lines 214-218: an exception of create_virtualenv or ensure_latest_pip
\* leaves install_package at once; nothing is undone.
provision_failed(W, vd) == W

\* o: the answers of virtualenv, pip and the user during this invocation.
install_package(W, name, system_wide, upgrade, caller_umask, o) ==
    LET vd == get_venv_dir(name, system_wide)
        restore_umask == IF system_wide THEN caller_umask ELSE NoUmask
        um == IF system_wide THEN RelaxedUmask ELSE caller_umask
        W1 == make_sure_path_exists(W, vd)
        create == needs_create(EnvAt(W1, vd), upgrade)
        c1 == <<"makedirs">> \o (IF create THEN <<"create_virtualenv">> ELSE <<>>)
        W2 == IF create
              THEN SetEnv(W1, vd, provisioned(EnvAt(W1, vd), o.listOut)) ELSE W1
        c2 == c1 \o <<"ensure_latest_pip">>
        c3 == c2 \o (IF IsDarwin THEN <<"ensure_certifi">> ELSE <<>>) \o <<"pip install">>
    IN  IF create /\ ~o.create
        THEN InstallOutcome(provision_failed(W1, vd), PyNone, "ProvisionError", c1, 0, "",
                            um, <<>>, <<>>)
        ELSE IF ~EnvAt(W2, vd).python
        THEN InstallOutcome(provision_failed(W2, vd), PyNone, "FileNotFoundError", c2, 0, "",
                            um, <<>>, <<>>)
        ELSE IF ~o.ensure
        THEN InstallOutcome(provision_failed(W2, vd), PyNone, "OSError", c2, 0, "",
                            um, <<>>, <<>>)
        ELSE IF ~o.install
        THEN LET r == rollback(W2, name, system_wide, o.confirm)
             IN  InstallOutcome(r.w, r.ret, r.exc, c3 \o r.calls, r.asked, r.msg,
                                um, <<>>, <<>>)
        ELSE install_discover(
                 SetEnv(W2, vd, [EnvAt(W2, vd) EXCEPT !.dist = o.dist, !.bins = o.bins]),
                 name, system_wide, restore_umask, um, c3, o)

\* ---------------------------------------- get_current_version, list_packages
VersionMarker == <<"V","e","r","s","i","o","n",":">>
NotFoundMarker == <<"P","a","c","k","a","g","e","(","s",")"," ","n","o","t"," ","f","o","u","n","d">>
NotAvailable == <<"n","/","a">>
DamagedNoPip == <<"d","a","m","a","g","e","d"," ","(","n","o"," ","i","n","n","e","r"," ","p","i","p",")">>
DamagedNoPython == <<"d","a","m","a","g","e","d"," ","(","P","y","t","h","o","n"," ","i","n","t","e","r","p","r","e","t","e","r"," ","i","s"," ","n","o","t"," ","f","o","u","n","d",")">>
EmptyEnv == <<"e","m","p","t","y","!">>
InstalledVersion == <<"1",".","0">>

\* stdout of "pip show <name>" (stderr merged in).
pip_show(env, name) ==
    IF pip_show_ok(env, name)
    THEN << <<"N","a","m","e",":"," ">> \o name, VersionMarker \o <<" ">> \o InstalledVersion >>
    ELSE << <<"W","A","R","N","I","N","G",":"," ">> \o NotFoundMarker \o <<":"," ">> \o name >>

\* Lines 141-147: the loop over the output lines; st = <<v, package_not_found>>.
RECURSIVE scan_show(_, _)
scan_show(lines, st) ==
    IF lines = <<>> THEN st
    ELSE LET line == Head(lines)
             v == IF Contains(line, VersionMarker) THEN Strip(SplitLast(line, ":")) ELSE st[1]
             nf == st[2] \/ Contains(line, NotFoundMarker)
         IN  scan_show(Tail(lines), <<v, nf>>)

\* A variant that does not tell a missing interpreter from no output.
current_version_no_interpreter_test(pip_exists, python_runs, lines) ==
    IF ~pip_exists THEN DamagedNoPip
    ELSE LET st == scan_show(IF python_runs THEN lines ELSE <<>>, <<NotAvailable, FALSE>>)
         IN  IF st[1] = NotAvailable /\ st[2] THEN EmptyEnv ELSE st[1]

\* Lines 132-150 of get_current_version: lines is what "pip show" prints
\* if bin/pip exists and its interpreter can be launched.
current_version(pip_exists, python_runs, lines) ==
    IF ~pip_exists THEN DamagedNoPip
    ELSE IF ~python_runs THEN DamagedNoPython
    ELSE LET st == scan_show(lines, <<NotAvailable, FALSE>>)
         IN  IF st[1] = NotAvailable /\ st[2] THEN EmptyEnv ELSE st[1]

get_current_version(W, name, system_wide) ==
    LET env == EnvAt(W, get_venv_dir(name, system_wide))
    IN  current_version(env.pip, env.python, pip_show(env, name))

\* next(os.walk(root))[1]: the directories directly below a scope's root.
subdirs(W, scope) == { k \in Keys : W.envs[scope][k].exists }

\* The rows list_packages prints (without the header row).
list_packages(W) ==
    { [name |-> k, version |-> get_current_version(W, k, FALSE)] : k \in subdirs(W, "user") }
    \cup
    { [name |-> <<"*">> \o k, version |-> get_current_version(W, k, TRUE)] :
          k \in subdirs(W, "system") }

\* The row name list_packages gives the environment of a package reference.
RowName(name, system_wide) ==
    IF system_wide THEN <<"*">> \o VenvKey(name) ELSE VenvKey(name)

\* ---------------------------------------------------------------- oracles
\* The distribution that pip installs for a reference: the project of the
\* current directory need not be named like the directory.
DistOf(name) ==
    IF name = RefDot THEN { SplitLast(Cwd, "/"), <<"d">> }
    ELSE IF name = RefGit THEN { <<"b">> }
    ELSE { SplitFirst(name, EqEq) }


\* The answers of one install_package invocation; an answer that the run
\* never asks for is left at its default.
AllGood == [create |-> TRUE, ensure |-> TRUE, install |-> TRUE, dist |-> <<>>,
            bins |-> <<>>, listOut |-> "json", confirm |-> FALSE,
            confirm2 |-> FALSE, inPath |-> TRUE]
ListOutsOf(name) == IF StartsWith(name, GitPlus) THEN { "json", "garbage" } ELSE { "json" }
\* Whether discovery can find a command after this install: it cannot when
\* the manifest has no bin/ file, when the project of "." is not named like
\* its directory, or when pip list does not start with the JSON line.
MayFindCommands(name, d, b, l) ==
    b # <<>> /\ l = "json" /\ (name = RefDot => d = SplitLast(Cwd, "/"))
InstallOracles ==
    [ name \in AllRefs |->
        { [AllGood EXCEPT !.create = FALSE] }
        \cup { [AllGood EXCEPT !.ensure = FALSE, !.listOut = l] : l \in ListOutsOf(name) }
        \cup { [AllGood EXCEPT !.install = FALSE, !.listOut = l] : l \in ListOutsOf(name) }
        \cup UNION { IF MayFindCommands(name, x[1], x[2], x[3]) \/ x[3] # "json"
                     THEN { [AllGood EXCEPT !.dist = x[1], !.bins = x[2], !.listOut = x[3]] }
                     ELSE { [AllGood EXCEPT !.dist = x[1], !.bins = x[2], !.listOut = x[3],
                                            !.confirm = c[1], !.confirm2 = c[2]] :
                              c \in { <<FALSE, FALSE>>, <<TRUE, FALSE>>, <<TRUE, TRUE>> } } :
                     x \in DistOf(name) \X BinSeqs \X ListOutsOf(name) } ]

\* ------------------------------------------------------------------ state
VARIABLES
    session,   \* the shell the commands are typed in: scope addressed, umask, PATH
    envs,      \* envs[scope][key]: the virtualenv directories
    bin,       \* bin[scope][name]: the entries of the public bin directory
    binDir,    \* binDir[scope]: whether the public bin directory exists
    last,      \* the invocation that has just run; NoOp at the shell prompt
    prev,      \* the invocation before it, if it installed commands
    pdir,      \* publish(): the link directory
    ppc,       \* publish(): the position in utils.symlink
    pargs,     \* publish(): target, link_name, temp_link_name, entry replaced
    pexc,      \* publish(): the exception raised, "none" if none
    pcount     \* publish(): calls so far

lifecycle_vars == <<session, envs, bin, binDir, last, prev>>
publish_vars == <<pdir, ppc, pargs, pexc, pcount>>
vars == <<session, envs, bin, binDir, last, prev, pdir, ppc, pargs, pexc, pcount>>

Now == World(envs, bin, binDir)

NoOp == [op |-> "none", name |-> <<>>, system_wide |-> FALSE, upgrade |-> FALSE,
         confirmation_needed |-> FALSE, umaskIn |-> 0, umaskOut |-> 0,
         ret |-> PyNone, exc |-> "none", calls |-> <<>>, asked |-> 0, msg |-> "",
         found |-> <<>>, reported |-> <<>>, rows |-> {},
         existed |-> FALSE, hadPip |-> FALSE, out |-> <<>>, version |-> <<>>,
         key |-> <<>>]

\* What is kept of the invocation before the latest: an install that
\* published commands, and nothing of any other invocation.
Summary(rec) ==
    IF rec.op = "install" /\ rec.exc = "none" /\ rec.found # <<>>
    THEN [op |-> rec.op, name |-> rec.name, system_wide |-> rec.system_wide,
          found |-> rec.found]
    ELSE [op |-> "none", name |-> <<>>, system_wide |-> FALSE, found |-> <<>>]

\* first: the call before this one, if it returned, and the directory it left.
NoArgs == [target |-> NoTarget, link_name |-> <<>>, temp_link_name |-> <<>>, old |-> Absent,
           first |-> [target |-> NoTarget, link_name |-> <<>>, dir |-> EmptyDir]]

PublishIdle ==
    /\ pdir = EmptyDir
    /\ ppc = "idle"
    /\ pargs = NoArgs
    /\ pexc = "none"
    /\ pcount = 0

\* The commands of one behaviour are typed in one shell and address one
\* scope (the two scopes share no path): --system under some umask, or the
\* user's scope with or without ~/.local/bin in PATH.
Sessions ==
    { [system_wide |-> TRUE, umask |-> u, inPath |-> TRUE] : u \in Umasks }
    \cup { [system_wide |-> FALSE, umask |-> RelaxedUmask, inPath |-> ip] : ip \in BOOLEAN }

NoEnvs == [s \in Scopes |-> [k \in Keys |-> NoEnv]]

\* Before the first invocation no environment exists; the public bin
\* directory may already hold a file or a directory of someone else's.
Init ==
    /\ session \in Sessions
    /\ envs = NoEnvs
    /\ \E f \in { Absent, PlainFile, PlainDir } :
          /\ bin = [s \in Scopes |-> [EmptyDir EXCEPT ![ExeX] = f]]
          /\ binDir = [s \in Scopes |-> f # Absent]
    /\ last = NoOp
    /\ prev = Summary(NoOp)
    /\ PublishIdle

\* An invocation starts at the shell prompt and leaves world W and record rec.
AtPrompt == last.op = "none"
Apply(W, rec) ==
    /\ AtPrompt
    /\ envs' = W.envs
    /\ bin' = W.bin
    /\ binDir' = W.binDir
    /\ last' = rec
    /\ UNCHANGED <<session, prev, publish_vars>>

\* pip-safe install / upgrade <name> [--system]
Install ==
    /\ AtPrompt
    /\ \E name \in Refs, upgrade \in BOOLEAN :
         \E o \in InstallOracles[name] :
         \E r \in { install_package(Now, name, session.system_wide, upgrade, session.umask,
                                    [o EXCEPT !.inPath = session.inPath]) },
            env \in { EnvAt(Now, get_venv_dir(name, session.system_wide)) } :
                Apply(r.w, [NoOp EXCEPT !.op = "install", !.name = name,
                                 !.system_wide = session.system_wide, !.upgrade = upgrade,
                                 !.umaskIn = session.umask, !.umaskOut = r.umask,
                                 !.ret = r.ret, !.exc = r.exc, !.calls = r.calls,
                                 !.asked = r.asked, !.msg = r.msg, !.found = r.found,
                                 !.reported = r.reported, !.existed = env.exists,
                                 !.hadPip = env.pip])

\* pip-safe remove <name> [--system] [-y]
Remove ==
    /\ AtPrompt
    /\ \E name \in Refs, cn \in BOOLEAN :
         \E answer \in (IF cn THEN BOOLEAN ELSE { TRUE }) :
         \E r \in { remove_package(Now, name, session.system_wide, cn, FALSE, answer) },
            env \in { EnvAt(Now, get_venv_dir(name, session.system_wide)) } :
                Apply(r.w, [NoOp EXCEPT !.op = "remove", !.name = name,
                                 !.system_wide = session.system_wide,
                                 !.confirmation_needed = cn, !.ret = r.ret,
                                 !.exc = r.exc, !.calls = r.calls, !.asked = r.asked,
                                 !.msg = r.msg, !.existed = env.exists,
                                 !.hadPip = env.pip])

\* pip-safe list
List ==
    /\ Apply(Now, [NoOp EXCEPT !.op = "list", !.rows = list_packages(Now)])

\* The process of the invocation ends: its return value, its umask and its
\* log are gone, and the shell prompts for the next command.
Exit ==
    /\ ~AtPrompt
    /\ prev' = Summary(last)
    /\ last' = NoOp
    /\ UNCHANGED <<session, envs, bin, binDir, publish_vars>>

Next == Install \/ Remove \/ List \/ Exit

Spec == Init /\ [][Next]_vars

\* ------------------------------------------------- utils.symlink, stepwise
\* SpecPublish runs symlink(target, link_name, overwrite=True) one system call
\* at a time on a bin directory that other processes look at and in which
\* another process may take the temporary name between mktemp and symlink.
UserEnvA == [scope |-> "user", key |-> KeyOf[RefA]]
UserEnvGit == [scope |-> "user", key |-> KeyOf[RefGit]]
Targets == { EnvTarget(UserEnvA, ExeX), EnvTarget(UserEnvGit, ExeX) }

\* What link_name may be when publish is called.
OldEntries == { Absent, PlainFile, PlainDir, Link(FileTarget), Link(DirTarget) }
                  \cup { Link(t) : t \in Targets }

InitPublish ==
    /\ session = [system_wide |-> FALSE, umask |-> RelaxedUmask, inPath |-> TRUE]
    /\ envs = NoEnvs
    /\ bin = [s \in Scopes |-> EmptyDir]
    /\ binDir = [s \in Scopes |-> TRUE]
    /\ last = NoOp
    /\ prev = Summary(NoOp)
    /\ \E ex \in OldEntries, ey \in { Absent, PlainDir } :
          pdir = [EmptyDir EXCEPT ![ExeX] = ex, ![ExeY] = ey]
    /\ ppc = "idle"
    /\ pargs = NoArgs
    /\ pexc = "none"
    /\ pcount = 0

PublishDone == ppc \in { "idle", "returned", "raised" }

\* symlink(target, link_name, overwrite=True) is called.
PublishCall ==
    /\ PublishDone
    /\ pcount < MaxPublish
    /\ \E target \in Targets, link_name \in ExeNames :
          pargs' = [target |-> target, link_name |-> link_name,
                    temp_link_name |-> <<>>, old |-> pdir[link_name],
                    first |-> IF ppc = "returned"
                              THEN [target |-> pargs.target, link_name |-> pargs.link_name,
                                    dir |-> pdir]
                              ELSE NoArgs.first]
    /\ ppc' = "mktemp"
    /\ pexc' = "none"
    /\ pcount' = pcount + 1
    /\ UNCHANGED <<pdir, lifecycle_vars>>

\* Line 48: tempfile.mktemp returns a name that is free when it looks.
PublishMktemp ==
    /\ ppc = "mktemp"
    /\ \E t \in FreeTmpNames(pdir) : pargs' = [pargs EXCEPT !.temp_link_name = t]
    /\ ppc' = "symlink"
    /\ UNCHANGED <<pdir, pexc, pcount, lifecycle_vars>>

\* Another process creates a file of the name mktemp has just returned.
OtherProcessTakesName ==
    /\ ppc = "symlink"
    /\ pdir[pargs.temp_link_name] = Absent
    /\ pdir' = [pdir EXCEPT ![pargs.temp_link_name] = PlainFile]
    /\ UNCHANGED <<ppc, pargs, pexc, pcount, lifecycle_vars>>

\* Lines 54-59: os.symlink to the temporary name; EEXIST starts the loop again.
PublishSymlink ==
    /\ ppc = "symlink"
    /\ \E r \in { create_temp_link(pdir, pargs.target, pargs.link_name,
                                   pargs.temp_link_name) } :
          /\ pdir' = r.d
          /\ ppc' = IF r.exc = "EEXIST" THEN "mktemp" ELSE "replace"
    /\ UNCHANGED <<pargs, pexc, pcount, lifecycle_vars>>

\* Lines 62-73: the directory check, then os.replace; fails says whether the
\* operating system refuses the rename (permissions, say).
PublishReplace ==
    /\ ppc = "replace"
    /\ \E fails \in BOOLEAN :
          \E r \in { IF is_dir_conflict(pdir, pargs.link_name)
                     THEN [d |-> pdir, exc |-> "IsADirectoryError"]
                     ELSE IF fails THEN [d |-> pdir, exc |-> "OSError"]
                     ELSE os_replace(pdir, pargs.temp_link_name, pargs.link_name) } :
             /\ pdir' = r.d
             /\ pexc' = r.exc
             /\ ppc' = IF r.exc = "none" THEN "returned" ELSE "cleanup"
    /\ UNCHANGED <<pargs, pcount, lifecycle_vars>>

\* Lines 74-77: the except clause removes the temporary link and re-raises.
PublishCleanup ==
    /\ ppc = "cleanup"
    /\ pdir' = remove_temp_link(pdir, pargs.temp_link_name)
    /\ ppc' = "raised"
    /\ UNCHANGED <<pargs, pexc, pcount, lifecycle_vars>>

NextPublish ==
    \/ PublishCall
    \/ PublishMktemp
    \/ OtherProcessTakesName
    \/ PublishSymlink
    \/ PublishReplace
    \/ PublishCleanup

SpecPublish == InitPublish /\ [][NextPublish]_vars

\* ------------------------------------------- discovery on any environment
\* SpecDiscover calls get_venv_executable_names on every state the
\* environment of a reference can be in: missing, a bare directory (its
\* provisioning failed), or provisioned, with or without a distribution,
\* with an interpreter that still runs or one that has gone away since.
EnvStates(name) ==
    { NoEnv, [NoEnv EXCEPT !.exists = TRUE] }
    \cup { [exists |-> TRUE, pip |-> TRUE, python |-> py, dist |-> x[1], bins |-> x[2],
            listOut |-> l] :
             py \in BOOLEAN,
             x \in { <<(<<>>), (<<>>)>> } \cup (DistOf(name) \X BinSeqs),
             l \in (IF StartsWith(name, GitPlus) THEN ListOuts ELSE { "json" }) }

InitDiscover ==
    /\ session \in Sessions
    /\ \E name \in AllRefs : \E env \in EnvStates(name) :
          envs = [NoEnvs EXCEPT ![ScopeOf(session.system_wide)][KeyOf[name]] = env]
    /\ bin = [s \in Scopes |-> EmptyDir]
    /\ binDir = [s \in Scopes |-> FALSE]
    /\ last = NoOp
    /\ prev = Summary(NoOp)
    /\ PublishIdle

\* get_venv_executable_names(name, system_wide) is called.
Discover ==
    /\ AtPrompt
    /\ \E name \in AllRefs :
          \E r \in { get_venv_executable_names(Now, name, session.system_wide) } :
             last' = [NoOp EXCEPT !.op = "discover", !.name = name,
                                  !.system_wide = session.system_wide,
                                  !.found = r.names, !.exc = r.exc, !.calls = r.calls]
    /\ UNCHANGED <<session, envs, bin, binDir, prev, publish_vars>>

SpecDiscover == InitDiscover /\ [][Discover]_vars

\* ---------------------------------------------- get_current_version alone
\* SpecVersion calls get_current_version on an environment directory that
\* is bare, has bin/pip without an interpreter, or has both, and on every
\* short output of "pip show": the lines of an installed package, pip's
\* warning that the package is not found, other text, or nothing.
VersionLine == VersionMarker \o <<" ">> \o InstalledVersion
NotFoundLine == <<"W","A","R","N","I","N","G",":"," ">> \o NotFoundMarker \o <<":"," ","a">>
ShowLines ==
    { <<"N","a","m","e",":"," ","a">>, VersionLine, NotFoundLine,
      <<"S","u","m","m","a","r","y",":"," ","s">> }
ShowOutputs == UNION { [1..n -> ShowLines] : n \in 0..MaxShowLines }

InitVersion ==
    /\ session \in Sessions
    /\ \E k \in Keys, pip \in BOOLEAN, python \in BOOLEAN :
          /\ python => pip
          /\ envs = [NoEnvs EXCEPT ![ScopeOf(session.system_wide)][k] =
                        [NoEnv EXCEPT !.exists = TRUE, !.pip = pip, !.python = python]]
    /\ bin = [s \in Scopes |-> EmptyDir]
    /\ binDir = [s \in Scopes |-> FALSE]
    /\ last = NoOp
    /\ prev = Summary(NoOp)
    /\ PublishIdle

\* get_current_version(pkg_name, system_wide) is called, as list_packages
\* calls it, with the name of a directory under the scope's root.
Version ==
    /\ AtPrompt
    /\ \E k \in subdirs(Now, ScopeOf(session.system_wide)), lines \in ShowOutputs :
          \E env \in { EnvAt(Now, get_venv_dir(k, session.system_wide)) } :
             last' = [NoOp EXCEPT !.op = "version", !.name = k,
                                  !.system_wide = session.system_wide,
                                  !.out = lines,
                                  !.version = current_version(env.pip, env.python, lines)]
    /\ UNCHANGED <<session, envs, bin, binDir, prev, publish_vars>>

SpecVersion == InitVersion /\ [][Version]_vars

\* ------------------------------------------------- get_venv_dir's key alone
\* SpecSanitize computes the directory name of get_venv_dir for every
\* reference put together from at most MaxPieces of these pieces.
Pieces ==
    { <<"a">>, <<"/">>, <<"=">>, EqEq, Dot, GitPlus, HttpsScheme,
      <<"s","s","h",":","/","/">> }
RECURSIVE Join(_)
Join(ps) == IF ps = <<>> THEN <<>> ELSE Head(ps) \o Join(Tail(ps))
SanitizeRefs == { Join(ps) : ps \in UNION { [1..n -> Pieces] : n \in 0..MaxPieces } }

InitSanitize ==
    /\ session \in Sessions
    /\ envs = NoEnvs
    /\ bin = [s \in Scopes |-> EmptyDir]
    /\ binDir = [s \in Scopes |-> FALSE]
    /\ last = NoOp
    /\ prev = Summary(NoOp)
    /\ PublishIdle

\* Lines 58-66 of get_venv_dir(name, system_wide) are run on a reference.
Sanitize ==
    /\ AtPrompt
    /\ \E name \in SanitizeRefs :
          last' = [NoOp EXCEPT !.op = "sanitize", !.name = name,
                               !.system_wide = session.system_wide,
                               !.key = VenvKey(name)]
    /\ UNCHANGED <<session, envs, bin, binDir, prev, publish_vars>>

SpecSanitize == InitSanitize /\ [][Sanitize]_vars

\* --------------------------------------------- remove of any reference
\* SpecResolve removes, among environments that installs have left in the
\* scope, a reference of any spelling: one that names an environment, one
\* whose directory name is empty, and "..".
InitResolve ==
    /\ session \in Sessions
    /\ \E present \in SUBSET Keys, f \in { Absent, PlainFile } :
          /\ envs = [NoEnvs EXCEPT ![ScopeOf(session.system_wide)] =
                       [k \in Keys |-> IF k \in present
                                       THEN [exists |-> TRUE, pip |-> TRUE, python |-> TRUE,
                                             dist |-> k, bins |-> <<>>, listOut |-> "json"]
                                       ELSE NoEnv]]
          /\ bin = [s \in Scopes |-> [EmptyDir EXCEPT ![ExeX] = f]]
    /\ binDir = [s \in Scopes |-> TRUE]
    /\ last = NoOp
    /\ prev = Summary(NoOp)
    /\ PublishIdle

\* pip-safe remove <name> [--system] [-y], for any name
RemoveAny ==
    /\ AtPrompt
    /\ \E name \in OddRefs \cup { RefA, RefAPin }, cn \in BOOLEAN :
         \E answer \in (IF cn THEN BOOLEAN ELSE { TRUE }) :
         \E r \in { remove_package(Now, name, session.system_wide, cn, FALSE, answer) },
            env \in { EnvAt(Now, get_venv_dir(name, session.system_wide)) } :
                Apply(r.w, [NoOp EXCEPT !.op = "remove", !.name = name,
                                 !.system_wide = session.system_wide,
                                 !.confirmation_needed = cn, !.ret = r.ret,
                                 !.exc = r.exc, !.calls = r.calls, !.asked = r.asked,
                                 !.msg = r.msg, !.existed = env.exists,
                                 !.hadPip = env.pip])

SpecResolve == InitResolve /\ [][RemoveAny]_vars

\* ================================================================ claims
Called(c) == \E i \in 1..Len(last.calls) : last.calls[i] = c
CountCalls(c) == Cardinality({ i \in 1..Len(last.calls) : last.calls[i] = c })
LastEnvDir == get_venv_dir(last.name, last.system_wide)
LinksInto(vd) ==
    { n \in ExeNames : /\ bin[vd.scope][n].kind = "link"
                       /\ bin[vd.scope][n].to.scope = vd.scope
                       /\ bin[vd.scope][n].to.key = vd.key }

\* C1: a remove that returns True right after an install of the same
\* reference in the same scope that published the commands E leaves no
\* environment directory, no bin_dir/e for any e in E, and no row for the
\* package in what list_packages prints next.
RemovedAfterInstall ==
    /\ last.op = "remove"
    /\ last.ret = PyTrue
    /\ prev.op = "install"
    /\ prev.name = last.name
    /\ prev.system_wide = last.system_wide
C1_InstallRemoveRoundTrip ==
    RemovedAfterInstall =>
        /\ ~EnvAt(Now, LastEnvDir).exists
        /\ \A i \in 1..Len(prev.found) : bin[LastEnvDir.scope][prev.found[i]] = Absent
        /\ \A row \in list_packages(Now) : row.name # RowName(last.name, last.system_wide)
C1_Witness ==
    /\ RemovedAfterInstall
    /\ Len(prev.found) = 2
    /\ last.confirmation_needed

\* C2 (as claimed): when pip install fails, install_package removes the
\* environment silently and without asking, the environment directory is
\* gone when it returns, and it returns a value that a successful install
\* does not return (None).
PipInstallFailed == last.op = "install" /\ Called("remove(silent)")
C2_RollbackOnInstallFailure ==
    PipInstallFailed =>
        /\ last.asked = 0
        /\ ~Called("confirm")
        /\ ~EnvAt(Now, LastEnvDir).exists
        /\ last.exc = "none"
        /\ last.ret # PyNone

\* C3 (as claimed): after a remove that returns True, no symbolic link into
\* the removed environment is left in the public bin directory.
C3_LinksTornDown ==
    (last.op = "remove" /\ last.ret = PyTrue) => LinksInto(LastEnvDir) = {}

\* C4: from the call of publish on an existing file or symbolic link until
\* after its return, every state shows link_name as either the entry it was
\* or a symbolic link to the new target.
C4_AtomicReplacement ==
    (ppc # "idle" /\ pargs.old.kind \in { "file", "link" }) =>
        pdir[pargs.link_name] \in { pargs.old, Link(pargs.target) }
C4_Witness ==
    /\ ppc = "replace"
    /\ pargs.old.kind \in { "file", "link" }
    /\ pargs.old # Link(pargs.target)
    /\ pdir[pargs.temp_link_name] = Link(pargs.target)
    /\ pdir[pargs.link_name] = pargs.old

\* C5: publish on a link_name that is a directory ends by raising
\* IsADirectoryError, with the directory still there and no temporary
\* symbolic link left in the bin directory.
C5_DirectoryConflict ==
    (PublishDone /\ ppc # "idle" /\ isdir(pargs.old)) =>
        /\ ppc = "raised"
        /\ pexc = "IsADirectoryError"
        /\ pdir[pargs.link_name] = pargs.old
        /\ \A t \in TmpNames : ~islink(pdir[t])
C5_Witness ==
    /\ ppc = "raised"
    /\ pargs.old = PlainDir
    /\ pargs.temp_link_name \in TmpNames

\* C6 (as claimed): whenever a --system install or upgrade ends, by return
\* or by exception, the process umask is the one the caller had.
C6_UmaskRestored ==
    (last.op = "install" /\ last.system_wide) => last.umaskOut = last.umaskIn

\* C7: an upgrade of an environment that has bin/pip never calls
\* create_virtualenv; every other install or upgrade calls it exactly once,
\* as its second call, before ensure_latest_pip.
C7_UpgradeKeepsEnvironment ==
    last.op = "install" =>
        IF last.upgrade /\ last.hadPip
        THEN CountCalls("create_virtualenv") = 0
        ELSE /\ CountCalls("create_virtualenv") = 1
             /\ \A i \in 1..Len(last.calls) :
                   last.calls[i] = "ensure_latest_pip" =>
                       \E j \in 1..(i - 1) : last.calls[j] = "create_virtualenv"
C7_Witness ==
    /\ last.op = "install"
    /\ last.upgrade
    /\ last.hadPip
    /\ Called("ensure_latest_pip")

\* C8 (as claimed): after an install whose discovery found the commands E,
\* the bin directory exists, every bin_dir/e is a symbolic link to
\* env_dir/bin/e, and the names reported are exactly E.
FoundCommands == last.op = "install" /\ last.found # <<>>
AllPublished ==
    /\ binDir[LastEnvDir.scope]
    /\ \A i \in 1..Len(last.found) :
          bin[LastEnvDir.scope][last.found[i]] = Link(EnvTarget(LastEnvDir, last.found[i]))
C8_PublishedAndReported ==
    FoundCommands => (AllPublished /\ last.reported = last.found)

\* C8 (amended): the same, for an install that returns (publish raises
\* IsADirectoryError when some bin_dir/e is a directory, and then that
\* directory is still there); the names reported are E when the bin
\* directory is in PATH or the scope is System, and the first of E otherwise.
C8_PublishedUnlessConflict ==
    FoundCommands =>
        IF last.exc = "none"
        THEN /\ AllPublished
             /\ last.reported = IF last.system_wide \/ session.inPath
                                THEN last.found ELSE << last.found[1] >>
        ELSE /\ last.exc = "IsADirectoryError"
             /\ \E i \in 1..Len(last.found) : bin[LastEnvDir.scope][last.found[i]] = PlainDir
C8_Witness ==
    /\ FoundCommands
    /\ last.exc = "none"
    /\ Len(last.found) = 2
    /\ ~last.system_wide
    /\ ~session.inPath

\* C9 (as claimed): when create_virtualenv or ensure_latest_pip fails, the
\* exception is not swallowed and a rollback removes the environment
\* directory that the invocation created.
ProvisioningFailed ==
    /\ last.op = "install"
    /\ last.exc # "none"
    /\ last.calls[Len(last.calls)] \in { "create_virtualenv", "ensure_latest_pip" }
C9_ProvisionRolledBack ==
    ProvisioningFailed =>
        /\ Called("remove(silent)")
        /\ (~last.existed => ~EnvAt(Now, LastEnvDir).exists)

\* C9 (amended): when create_virtualenv or ensure_latest_pip fails, the
\* exception leaves install_package, remove_package is not called, and the
\* environment directory, made before provisioning, is still on disk.
C9_ProvisionFailureLeavesDirectory ==
    ProvisioningFailed =>
        /\ ~Called("remove(silent)")
        /\ ~Called("remove")
        /\ EnvAt(Now, LastEnvDir).exists
C9_Witness ==
    /\ ProvisioningFailed
    /\ ~last.existed
    /\ Called("ensure_latest_pip")

\* C10 (as claimed): get_venv_executable_names never raises, whatever the
\* reference and whatever pip does.
C10_DiscoveryNeverRaises ==
    last.op = "discover" => last.exc = "none"

\* C11 (as claimed): publish on a link_name that is a regular file or a
\* symbolic link, whatever the link points to, returns with link_name a
\* symbolic link to target unless the operating system refuses the rename;
\* it raises IsADirectoryError only when link_name is itself a directory.
C11_ReplacesFileOrLink ==
    (PublishDone /\ ppc # "idle" /\ pargs.old.kind \in { "file", "link" }
        /\ pexc # "OSError") =>
        /\ ppc = "returned"
        /\ pexc = "none"
        /\ pdir[pargs.link_name] = Link(pargs.target)

\* C12: a remove of a reference whose environment directory does not exist
\* returns False after the "nothing to do" warning, raises nothing, asks
\* nothing, runs no pip, and leaves the environment roots and the public
\* bin directories as they were.
C12_RemoveMissingIsNoOp ==
    [][(last'.op = "remove" /\ last.op = "none" /\ ~last'.existed) =>
          /\ last'.ret = PyFalse
          /\ last'.msg = "nothing to do"
          /\ last'.exc = "none"
          /\ last'.asked = 0
          /\ last'.calls = <<"remove">>
          /\ envs' = envs
          /\ bin' = bin
          /\ binDir' = binDir]_vars
C12_Witness ==
    /\ last.op = "remove"
    /\ ~last.existed
    /\ last.confirmation_needed
    /\ last.msg = "nothing to do"
    /\ \E k \in Keys : envs[ScopeOf(last.system_wide)][k].exists
    /\ \E n \in ExeNames : islink(bin[ScopeOf(last.system_wide)][n])

\* C13: when discovery finds no executable and the user answers no to
\* "remove it as something useless?", the environment directory is still on
\* disk, remove_package is not called, and the public bin directories are
\* what they were before the install.
EmptyAndDeclined(rec) ==
    /\ rec.op = "install"
    /\ rec.exc = "none"
    /\ rec.found = <<>>
    /\ rec.asked = 1
    /\ rec.calls[Len(rec.calls)] = "confirm"
C13_DeclinedKeepsEnvironment ==
    [][(last.op = "none" /\ EmptyAndDeclined(last')) =>
          /\ envs'[ScopeOf(last'.system_wide)][KeyOf[last'.name]].exists
          /\ \A i \in 1..Len(last'.calls) : last'.calls[i] \notin { "remove", "remove(silent)", "rmtree" }
          /\ bin' = bin
          /\ binDir' = binDir]_vars
C13_Witness ==
    /\ EmptyAndDeclined(last)
    /\ ~last.existed
    /\ ~binDir[ScopeOf(last.system_wide)]
    /\ EnvAt(Now, LastEnvDir).pip

\* C14: get_current_version returns "damaged (no inner pip)" exactly when
\* bin/pip is missing; otherwise "damaged (Python interpreter is not found)"
\* exactly when the interpreter cannot be launched; otherwise the version of
\* the version line if the output has one; otherwise "empty!" if the output
\* has the "Package(s) not found" warning; otherwise "n/a".
C14_VersionMapping ==
    last.op = "version" =>
        LET env == EnvAt(Now, LastEnvDir)
            has_version == \E i \in 1..Len(last.out) : last.out[i] = VersionLine
            not_found == \E i \in 1..Len(last.out) : last.out[i] = NotFoundLine
        IN  last.version =
               IF ~env.pip THEN DamagedNoPip
               ELSE IF ~env.python THEN DamagedNoPython
               ELSE IF has_version THEN InstalledVersion
               ELSE IF not_found THEN EmptyEnv
               ELSE NotAvailable
C14_Witness ==
    /\ last.op = "version"
    /\ EnvAt(Now, LastEnvDir).pip
    /\ ~EnvAt(Now, LastEnvDir).python
    /\ last.out # <<>>
    /\ last.version = DamagedNoPython

\* The first position at which pat occurs in s, 0 if it does not occur.
FirstAt(s, pat) ==
    IF Contains(s, pat)
    THEN CHOOSE i \in 1..Len(s) :
            /\ StartsWith(Drop(s, i), pat)
            /\ \A j \in 1..(i - 1) : ~StartsWith(Drop(s, j), pat)
    ELSE 0
HasChar(s, c) == \E i \in 1..Len(s) : s[i] = c
\* A piece of a reference without "/", "=" or ":".
PlainText(s) == ~HasChar(s, "/") /\ ~HasChar(s, "=") /\ ~HasChar(s, ":")

\* C15 (as claimed): the key of a reference that has a VCS URL scheme
\* (git+https://, git+ssh://) contains no path separator and no scheme
\* character.
C15_SchemeStripped ==
    (last.op = "sanitize" /\ StartsWith(last.name, GitPlus)
        /\ Contains(last.name, <<":","/","/">>)) =>
        /\ ~HasChar(last.key, "/")
        /\ ~HasChar(last.key, ":")

\* C15 (amended): the key of a reference that contains "https://" contains
\* no path separator and no "https://"; where the text before and after a
\* single "https://" is plain, the key is that text joined (a "git+" before
\* the scheme stays).  No other scheme is stripped.
C15_HttpsSchemeStripped ==
    (last.op = "sanitize" /\ Contains(last.name, HttpsScheme)) =>
        /\ ~HasChar(last.key, "/")
        /\ ~Contains(last.key, HttpsScheme)
        /\ LET p == FirstAt(last.name, HttpsScheme)
               before == SubSeq(last.name, 1, p - 1)
               after == Drop(last.name, p + Len(HttpsScheme))
           IN  (PlainText(before) /\ PlainText(after) /\ before \o after # Dot) =>
                   last.key = before \o after
C15_Witness ==
    /\ last.op = "sanitize"
    /\ StartsWith(last.name, GitPlus \o HttpsScheme)
    /\ Len(last.name) > Len(GitPlus \o HttpsScheme)
    /\ last.key = GitPlus \o Drop(last.name, Len(GitPlus \o HttpsScheme) + 1)

\* The references name==version whose part before some "==" is name.
IsPinned(ref, i) == i + 1 <= Len(ref) /\ SubSeq(ref, i, i + 1) = EqEq
NameAt(ref, i) == SubSeq(ref, 1, i - 1)
SimpleName(name) == ~HasChar(name, "/") /\ ~Contains(name, EqEq) /\ name # Dot

\* C16 (as claimed): the key of name==version is name, for every name
\* without "/" and "==" that is not ".", so both resolve to one directory.
C16_PinnedNameIsName ==
    last.op = "sanitize" =>
        \A i \in 1..Len(last.name) :
            (IsPinned(last.name, i) /\ SimpleName(NameAt(last.name, i))) =>
                /\ last.key = NameAt(last.name, i)
                /\ last.key = VenvKey(NameAt(last.name, i))

\* C16 (amended): the same for every such name that does not end in "="
\* (the name is cut at the first "==" of the whole reference, which begins
\* inside a name that ends in "=").
C16_PinnedNameIsNameUnlessEquals ==
    last.op = "sanitize" =>
        \A i \in 1..Len(last.name) :
            (/\ IsPinned(last.name, i)
             /\ SimpleName(NameAt(last.name, i))
             /\ (i = 1 \/ last.name[i - 1] # "=")) =>
                /\ last.key = NameAt(last.name, i)
                /\ last.key = VenvKey(NameAt(last.name, i))
C16_Witness ==
    /\ last.op = "sanitize"
    /\ last.name = GitPlus \o <<"a">> \o EqEq \o <<"a">>
    /\ last.key = GitPlus \o <<"a">>

\* C17: when publish is called again with the target and link_name of a
\* call that has just returned, it ends with link_name a symbolic link to
\* target, no temporary symbolic link in the directory, and every other
\* entry as the first call left it (but for files other processes made).
PublishedTwice ==
    /\ PublishDone
    /\ ppc # "idle"
    /\ pargs.first.link_name = pargs.link_name
    /\ pargs.first.target = pargs.target
    /\ pargs.first.link_name # <<>>
C17_PublishIdempotent ==
    PublishedTwice =>
        /\ pdir[pargs.link_name] = Link(pargs.target)
        /\ \A n \in ExeNames : pdir[n] = pargs.first.dir[n]
        /\ \A t \in TmpNames : /\ ~islink(pdir[t])
                               /\ pdir[t] \in { pargs.first.dir[t], PlainFile }
C17_Witness ==
    /\ PublishedTwice
    /\ ppc = "returned"
    /\ pargs.temp_link_name \in TmpNames
    /\ pargs.first.dir[pargs.link_name] = Link(pargs.target)

\* C18 (as claimed): a remove changes no entry of the public bin directory
\* that is a regular file or a symbolic link into another environment.
C18_RemoveKeepsOthersEntries ==
    [][(last.op = "none" /\ last'.op = "remove") =>
          LET vd == get_venv_dir(last'.name, last'.system_wide)
          IN  \A n \in BinNames :
                 LET e == bin[vd.scope][n]
                 IN  (\/ e.kind = "file"
                      \/ (e.kind = "link" /\ <<e.to.scope, e.to.key>> # <<vd.scope, vd.key>>))
                        => bin'[vd.scope][n] = e]_vars

\* C19 (as claimed): whatever the reference, the directory get_venv_dir
\* resolves is one directly below the scope's root, and a remove leaves
\* every other environment as it was.
C19_RemoveOnlyOwnEnvironment ==
    [][(last.op = "none" /\ last'.op = "remove") =>
          LET vd == get_venv_dir(last'.name, last'.system_wide)
          IN  /\ PathKind(vd) = "child"
              /\ \A s \in Scopes, k \in Keys :
                    <<s, k>> # <<vd.scope, vd.key>> => envs'[s][k] = envs[s][k]]_vars

====
